---- MODULE Spec2Model ----
(***************************************************************************)
(* Model of the otkroimosprom backend.                                     *)
(*                                                                         *)
(* Two stores are modelled.  The consolidated-record store                 *)
(* (src/src/api/data_router.py, src/src/repositories, src/src/models.py,   *)
(* src/scripts/populate_db.py) holds one row per reporting snapshot.  The  *)
(* company store (src/src/api/files.py, src/src/api/companies.py,          *)
(* src/src/models/models.py) holds the uploaded companies and the links to *)
(* the users that uploaded them.  The two share no state, so each has its  *)
(* own next-state relation: DataNext and Next.  The CSV reader             *)
(* (src/src/csv_reader/reader.py) is a pure function of its input and is   *)
(* also checked alone, on one cell (CellSpec) and on one file (FileSpec).  *)
(*                                                                         *)
(* In the consolidated-record store Python's None is the empty tuple and a *)
(* present value v is <<v>>.  A value the CSV reader produces is a record  *)
(* tagged with its Python type.                                            *)
(***************************************************************************)
EXTENDS Integers, Sequences, FiniteSets, TLC

VARIABLES
    consolidated_data,  \* table consolidated_data: set of committed rows
    cd_id_seq,          \* last id handed out by the table's autoincrement
    req,                \* per client: the create request or populate item in flight
    companies,          \* table companies: committed rows, in insertion order
    user_base,          \* table user_base: committed ownership links
    company_id_seq,     \* last id handed out by the autoincrement of companies
    up,                 \* per user: the upload request in flight and its session
    deleted,            \* ids of the companies delete_company has removed
    resp,               \* status of the last response a handler sent
    csv_content,        \* what the CSV reader is given: a file or one cell
    csv_result,         \* what the CSV reader returned for it
    users,              \* table users: committed rows, in insertion order
    reg,                \* per client: the register request in flight
    calls               \* per client: the handler call in flight and its session

data_vars == <<consolidated_data, cd_id_seq, req>>
company_vars == <<companies, user_base, company_id_seq, up, deleted>>
reader_vars == <<csv_content, csv_result>>
auth_vars == <<users, reg>>
session_vars == <<calls>>
vars == <<consolidated_data, cd_id_seq, req, companies, user_base, company_id_seq,
          up, deleted, resp, csv_content, csv_result, users, reg, calls>>

None == <<>>
Some(v) == <<v>>

\* ------------------------------------------------------------------------
\* Bounds of the model
\* ------------------------------------------------------------------------
MaxRecordId == 2        \* rows ever inserted into consolidated_data
MaxRows == 2            \* data rows of an uploaded file
MaxCompanyId == 2       \* ids ever handed out for companies
MaxSummaryRows == 6     \* data rows of a file of the summary specification
MaxSummaryIds == 7      \* ids ever handed out in the summary specification

\* ------------------------------------------------------------------------
\* Consolidated records: src/src/models.py
\* ------------------------------------------------------------------------
INNs == {"7701"}
Years == {2023, 2024}
\* The (inn, year) pairs the requests of the model are about.
Pairs == INNs \X Years
Clients == {"c1", "c2"}

\* ConsolidatedDataBase declares inn, name and year without Optional, so
\* their columns are NOT NULL.  Of these only name is a column an update
\* can write.
NotNullColumns == {"name"}

\* ConsolidatedDataUpdate: the fields a PATCH may carry.  inn and year are
\* not among them.
UpdateFields == {"name", "net_profit_thous_rub"}

FieldValues(f) ==
    CASE f = "name" -> {Some("A")}
      [] f = "net_profit_thous_rub" -> {Some(10), Some(20)}

\* A request body of create_data: a ConsolidatedData without id.
NewRecords ==
    { [inn |-> k[1], year |-> k[2], name |-> Some("A"),
       net_profit_thous_rub |-> Some(10)] : k \in Pairs }

\* A ConsolidatedDataUpdate as pydantic holds it: the set of fields the body
\* carried (model_fields_set) and a value per field, None (the default) for a
\* field the body did not carry.
WellFormedUpdate(obj_in) ==
    \A f \in UpdateFields : f \notin obj_in.set => obj_in.val[f] = None

UpdateInputs ==
    { obj_in \in [set : SUBSET UpdateFields,
                  val : [name : FieldValues("name") \cup {None},
                         net_profit_thous_rub :
                             FieldValues("net_profit_thous_rub") \cup {None}]] :
        WellFormedUpdate(obj_in) }

Row(id, data) ==
    [id |-> id, inn |-> data.inn, year |-> data.year, name |-> data.name,
     net_profit_thous_rub |-> data.net_profit_thous_rub]

\* ------------------------------------------------------------------------
\* Repository: src/src/repositories/company_repository.py
\* ------------------------------------------------------------------------

\* get_by_inn_and_year: the rows matching both columns (.first() of them).
get_by_inn_and_year(table, inn, year) ==
    { r \in table : r.inn = inn /\ r.year = year }

get_by_id(table, record_id) ==
    { r \in table : r.id = record_id }

\* create: add + commit.  The table has no constraint besides the primary
\* key, which the autoincrement supplies.
create(table, id, data) ==
    table \cup {Row(id, data)}

\* model_dump() without exclude_unset: every field, None for the absent ones.
model_dump(obj_in) ==
    [f \in UpdateFields |-> obj_in.val[f]]

\* model_dump(exclude_unset=True): only the fields the body carried.
model_dump_exclude_unset(obj_in) ==
    [f \in obj_in.set |-> obj_in.val[f]]

\* The setattr loop of update.
apply_update(db_obj, obj_in) ==
    LET update_data == model_dump_exclude_unset(obj_in)
    IN  [f \in DOMAIN db_obj |->
            IF f \in DOMAIN update_data THEN update_data[f] ELSE db_obj[f]]

\* The commit of update raises IntegrityError when a NOT NULL column holds
\* None.
violates_not_null(row) ==
    \E f \in NotNullColumns : row[f] = None

\* update: setattr loop, add, commit, refresh.  A failed commit leaves the
\* stored row as it was.
update(table, db_obj, obj_in) ==
    LET new == apply_update(db_obj, obj_in)
    IN  IF violates_not_null(new)
        THEN [table |-> table, status |-> 500]
        ELSE [table |-> (table \ {db_obj}) \cup {new}, status |-> 200]

\* A delete that reports success whether or not the id was found.
delete_reports_true(table, record_id) ==
    [table |-> table \ get_by_id(table, record_id), result |-> TRUE]

\* delete: False when the id is absent, else delete + commit and True.
delete(table, record_id) ==
    LET record == get_by_id(table, record_id)
    IN  IF record = {}
        THEN [table |-> table, result |-> FALSE]
        ELSE [table |-> table \ record, result |-> TRUE]

\* ------------------------------------------------------------------------
\* Handlers of the consolidated-record store: src/src/api/data_router.py
\* ------------------------------------------------------------------------
Idle == [pc |-> "idle", data |-> None]

\* create_data as an upsert: a record found for the pair is overwritten.
CreateLookup_overwrite(p, data_in) ==
    /\ req[p].pc = "idle"
    /\ LET existing == get_by_inn_and_year(consolidated_data, data_in.inn, data_in.year)
       IN  IF existing # {}
           THEN /\ consolidated_data' =
                      (consolidated_data \ existing)
                          \cup {Row((CHOOSE r \in existing : TRUE).id, data_in)}
                /\ resp' = "201"
                /\ UNCHANGED req
           ELSE /\ req' = [req EXCEPT ![p] = [pc |-> "insert", data |-> Some(data_in)]]
                /\ UNCHANGED <<resp, consolidated_data>>
    /\ UNCHANGED cd_id_seq
    /\ UNCHANGED <<company_vars, reader_vars, auth_vars, session_vars>>

\* create_data, up to the lookup: 409 when the pair is found, else the
\* handler goes on to repo.create.  The lookup and the insert are separate
\* statements on the database, and other requests run in between.
CreateLookup(p, data_in) ==
    /\ req[p].pc = "idle"
    /\ LET existing == get_by_inn_and_year(consolidated_data, data_in.inn, data_in.year)
       IN  IF existing # {}
           THEN /\ resp' = "409"
                /\ UNCHANGED req
           ELSE /\ req' = [req EXCEPT ![p] = [pc |-> "insert", data |-> Some(data_in)]]
                /\ UNCHANGED resp
    /\ UNCHANGED <<consolidated_data, cd_id_seq>>
    /\ UNCHANGED <<company_vars, reader_vars, auth_vars, session_vars>>

\* repo.create of create_data and of the populate script: add, commit.
CreateInsert(p) ==
    /\ req[p].pc = "insert"
    /\ cd_id_seq < MaxRecordId
    /\ cd_id_seq' = cd_id_seq + 1
    /\ consolidated_data' = create(consolidated_data, cd_id_seq + 1, req[p].data[1])
    /\ req' = [req EXCEPT ![p] = Idle]
    /\ resp' = "201"
    /\ UNCHANGED <<company_vars, reader_vars, auth_vars, session_vars>>

\* One item of data.json as the populate script reads it: inn and year may
\* be missing.
PopulateItems ==
    { [inn |-> i, year |-> y] :
      i \in {Some(x) : x \in INNs} \cup {None},
      y \in {Some(x) : x \in Years} \cup {None} }

\* One turn of the loop of populate_data_from_json, up to the lookup.  The
\* script only logs an item it skips.
PopulateLookup(p, item) ==
    /\ req[p].pc = "idle"
    /\ item.inn # None /\ item.year # None => <<item.inn[1], item.year[1]>> \in Pairs
    /\ IF item.inn = None \/ item.year = None
       THEN UNCHANGED req
       ELSE LET existing == get_by_inn_and_year(consolidated_data, item.inn[1], item.year[1])
                new_record == [inn |-> item.inn[1], year |-> item.year[1], name |-> Some("A"),
                               net_profit_thous_rub |-> Some(10)]
            IN  IF existing # {}
                THEN UNCHANGED req
                ELSE req' = [req EXCEPT ![p] = [pc |-> "insert", data |-> Some(new_record)]]
    /\ UNCHANGED <<consolidated_data, cd_id_seq, resp>>
    /\ UNCHANGED <<company_vars, reader_vars, auth_vars, session_vars>>

RecordIds == 1..MaxRecordId

\* update_data: 404 when the id is absent, else repo.update; the commit's
\* IntegrityError is not caught and ends the request with 500.
UpdateData(record_id, data_update) ==
    /\ UNCHANGED <<cd_id_seq, req>>
    /\ UNCHANGED <<company_vars, reader_vars, auth_vars, session_vars>>
    /\ LET found == get_by_id(consolidated_data, record_id)
       IN  IF found = {}
           THEN /\ resp' = "404"
                /\ UNCHANGED consolidated_data
           ELSE LET record_to_update == CHOOSE r \in found : TRUE
                    updated == update(consolidated_data, record_to_update, data_update)
                IN  /\ consolidated_data' = updated.table
                    /\ resp' = IF updated.status = 200 THEN "200" ELSE "500"

\* delete_data: 404 when repo.delete returns False, else 204.
DeleteData(record_id) ==
    /\ LET done == delete(consolidated_data, record_id)
       IN  /\ consolidated_data' = done.table
           /\ resp' = IF done.result THEN "204" ELSE "404"
    /\ UNCHANGED <<cd_id_seq, req>>
    /\ UNCHANGED <<company_vars, reader_vars, auth_vars, session_vars>>

\* ------------------------------------------------------------------------
\* CSV reader: src/src/csv_reader/reader.py
\* ------------------------------------------------------------------------
PyNone == [t |-> "none", s |-> "", n |-> 0]
PyInt(n) == [t |-> "int", s |-> "", n |-> n]
PyStr(s) == [t |-> "str", s |-> s, n |-> 0]

\* The cells of the model's files.  "INN" stands for the header of the tax
\* identifier column and "NAME" for the header of the organisation name
\* column, which the source spells in Cyrillic.
InnCells == {"7701", "x77"}
NameCells == {"ACME"}

\* int(cleaned) of _clean_value for the cells made of digits.
DigitCells == {"7701"}
int_of(cell) == CASE cell = "7701" -> 7701

\* _clean_value: None for an empty cell, a number for a numeric cell, the
\* text otherwise.
clean_value(value) ==
    IF value = "" THEN PyNone
    ELSE IF value \in DigitCells THEN PyInt(int_of(value))
    ELSE PyStr(value)

\* read_companies: one dict per data row, with the row's number added.
read_companies(raw_rows) ==
    [i \in 1..Len(raw_rows) |->
        [INN |-> clean_value(raw_rows[i][1]),
         NAME |-> clean_value(raw_rows[i][2]),
         number |-> i]]

\* _extract_key_fields
extract_key_fields(row) ==
    [inn |-> row.INN, name |-> row.NAME]

\* The reader on whole text.  In the upload specifications above a cell is
\* one opaque string; here a cell is the sequence of its characters, so that
\* stripping, the rewriting of commas and the parsing of numbers are
\* computed as _clean_value computes them.
MaxCellLen == 3       \* characters of a cell
MaxFileRows == 2      \* lines of a file after its header
MaxRowCells == 3      \* cells of one line

Chars == {"0", "1", ",", ".", " ", "a"}
Digits == {"0", "1"}
Cells == UNION {[1..n -> Chars] : n \in 0..MaxCellLen}

\* The values csv.DictReader hands to _clean_value: the text of a cell,
\* None (its restval, for a header field the line has no cell for) or the
\* list of the surplus cells of a line (stored under its restkey, None).
RawStr(cell) == [k |-> "str", cell |-> cell, rest |-> <<>>]
RawNone == [k |-> "none", cell |-> <<>>, rest |-> <<>>]
RawList(cells) == [k |-> "list", cell |-> <<>>, rest |-> cells]

\* The values _clean_value returns.  A float is the decimal n / 10^e with
\* no trailing zero in its fraction; AttributeError is the exception a call
\* of .strip() on a list raises.
CellNone == [t |-> "none", chars |-> <<>>, n |-> 0, e |-> 0]
CellInt(n) == [t |-> "int", chars |-> <<>>, n |-> n, e |-> 0]
CellFloat(n, e) == [t |-> "float", chars |-> <<>>, n |-> n, e |-> e]
CellStr(chars) == [t |-> "str", chars |-> chars, n |-> 0, e |-> 0]
AttributeError == [t |-> "AttributeError", chars |-> <<>>, n |-> 0, e |-> 0]

\* str.strip()
RECURSIVE lstrip(_)
lstrip(s) == IF s # <<>> /\ Head(s) = " " THEN lstrip(Tail(s)) ELSE s

RECURSIVE rstrip(_)
rstrip(s) ==
    IF s # <<>> /\ s[Len(s)] = " " THEN rstrip(SubSeq(s, 1, Len(s) - 1)) ELSE s

strip(s) == rstrip(lstrip(s))

\* str.replace(old, new) for one-character strings
str_replace(s, old, new) ==
    IF s = <<>> THEN <<>>
    ELSE [i \in 1..Len(s) |-> IF s[i] = old THEN new ELSE s[i]]

\* old in s
contains(s, c) == \E i \in 1..Len(s) : s[i] = c

digit_value(c) == IF c = "1" THEN 1 ELSE 0

\* int(s) for a string of decimal digits
RECURSIVE int_value(_)
int_value(s) ==
    IF s = <<>> THEN 0
    ELSE 10 * int_value(SubSeq(s, 1, Len(s) - 1)) + digit_value(s[Len(s)])

\* int(s) raises ValueError unless s is a decimal literal: over Chars, a
\* non-empty string of digits.
is_int_literal(s) == s # <<>> /\ \A i \in 1..Len(s) : s[i] \in Digits

\* float(s) raises ValueError unless s is a decimal literal: over Chars,
\* digits around one point, with a digit on at least one side.
is_float_literal(s) ==
    /\ Cardinality({i \in 1..Len(s) : s[i] = "."}) = 1
    /\ \A i \in 1..Len(s) : s[i] \in Digits \cup {"."}
    /\ Len(s) >= 2

RECURSIVE strip_zeros(_)
strip_zeros(s) ==
    IF s # <<>> /\ s[Len(s)] = "0" THEN strip_zeros(SubSeq(s, 1, Len(s) - 1))
    ELSE s

\* float(s) of a decimal literal
float_value(s) ==
    LET p == CHOOSE i \in 1..Len(s) : s[i] = "."
        whole == SubSeq(s, 1, p - 1)
        fraction == strip_zeros(SubSeq(s, p + 1, Len(s)))
    IN CellFloat(int_value(whole \o fraction), Len(fraction))

\* _clean_value, as the source computes it: the text it returns for a cell
\* that is no number is `cleaned`, the stripped cell with its commas
\* rewritten.
clean_value_of(value) ==
    IF value.k = "none" THEN CellNone
    ELSE IF value.k = "list"
         THEN IF value.rest = <<>> THEN CellNone ELSE AttributeError
    ELSE IF value.cell = <<>> \/ strip(value.cell) = <<>> THEN CellNone
    ELSE LET cleaned == strip(str_replace(value.cell, ",", "."))
         IN IF contains(cleaned, ".")
            THEN IF is_float_literal(cleaned) THEN float_value(cleaned)
                 ELSE CellStr(cleaned)
            ELSE IF is_int_literal(cleaned) THEN CellInt(int_value(cleaned))
                 ELSE CellStr(cleaned)

\* A file is its header and the lines after it, each line the cells the
\* csv module splits it into; a blank line has no cell.
\* A field name is text as a cell is; the names of the model are written
\* as one symbol each.
Headers ==
    {<< <<"inn">> >>, << <<"inn">>, <<"name">> >>, << <<"inn">>, <<"inn">> >>}
FileCells == {<<"1">>, <<"a", ",">>}
RowsOfCells == UNION {[1..n -> FileCells] : n \in 0..MaxRowCells}
Files ==
    [fieldnames : Headers,
     rows : UNION {[1..n -> RowsOfCells] : n \in 0..MaxFileRows}]

\* The key of the surplus cells, Python's None, and the key of the number
\* of the record.
restkey == None
number_key == <<"number">>

\* csv.DictReader.__next__ skips the lines that have no cell.
data_rows_with_blank(rows) == rows

data_rows(rows) == SelectSeq(rows, LAMBDA row : row # <<>>)

\* csv.DictReader.__next__: dict(zip(fieldnames, row)), so that the last
\* of two equal field names wins; the surplus cells go under restkey as a
\* list; the fields the line has no cell for get restval, None.
dict_reader_row(fieldnames, row) ==
    LET keys == {fieldnames[p] : p \in 1..Len(fieldnames)}
                    \cup (IF Len(row) > Len(fieldnames) THEN {restkey} ELSE {})
        last(key) == CHOOSE p \in 1..Len(fieldnames) :
                        /\ fieldnames[p] = key
                        /\ \A q \in (p + 1)..Len(fieldnames) : fieldnames[q] # key
    IN [key \in keys |->
           IF key = restkey
           THEN RawList(SubSeq(row, Len(fieldnames) + 1, Len(row)))
           ELSE IF last(key) <= Len(row) THEN RawStr(row[last(key)])
           ELSE RawNone]

\* The body of the loop of read_companies: every value cleaned, and the
\* number of the record added.
cleaned_row(row, row_num) ==
    [key \in DOMAIN row \cup {number_key} |->
        IF key = number_key THEN CellInt(row_num) ELSE clean_value_of(row[key])]

\* read_companies: the records of the file, or the exception the cleaning
\* of a value raised.
read_companies_of(content) ==
    LET rows == data_rows(content.rows)
        dicts == [i \in 1..Len(rows) |->
                     dict_reader_row(content.fieldnames, rows[i])]
    IN IF \E i \in 1..Len(rows) : \E key \in DOMAIN dicts[i] :
              clean_value_of(dicts[i][key]) = AttributeError
       THEN [raised |-> TRUE, records |-> <<>>]
       ELSE [raised |-> FALSE,
             records |-> [i \in 1..Len(rows) |-> cleaned_row(dicts[i], i)]]

\* One call of _clean_value on the cell given.
CleanValue ==
    /\ csv_result = None
    /\ csv_content # None
    /\ csv_result' = Some(clean_value_of(RawStr(csv_content[1])))
    /\ UNCHANGED <<csv_content, resp>>
    /\ UNCHANGED <<data_vars, company_vars, auth_vars, session_vars>>

\* One call of read_companies on the file given.
ReadCompanies ==
    /\ csv_result = None
    /\ csv_content # None
    /\ csv_result' = Some(read_companies_of(csv_content[1]))
    /\ UNCHANGED <<csv_content, resp>>
    /\ UNCHANGED <<data_vars, company_vars, auth_vars, session_vars>>

\* ------------------------------------------------------------------------
\* From the text of an uploaded file to the Company rows
\* (src/src/csv_reader/reader.py, src/src/api/files.py steps 4 and 5)
\* ------------------------------------------------------------------------
MaxIngestRows == 2    \* lines of an ingested file after its header

\* csv.reader on one line that has no quoted cell: the pieces between the
\* delimiters, and no piece at all for an empty line.
RECURSIVE split(_, _)
split(line, delimiter) ==
    IF ~contains(line, delimiter) THEN <<line>>
    ELSE LET p == CHOOSE i \in 1..Len(line) :
                    /\ line[i] = delimiter
                    /\ \A j \in 1..(i - 1) : line[j] # delimiter
         IN <<SubSeq(line, 1, p - 1)>>
                \o split(SubSeq(line, p + 1, Len(line)), delimiter)

csv_reader(line, delimiter) ==
    IF line = <<>> THEN <<>> ELSE split(line, delimiter)

\* The line a writer produces from the cells of a row.
RECURSIVE join(_, _)
join(pieces, delimiter) ==
    IF pieces = <<>> THEN <<>>
    ELSE IF Len(pieces) = 1 THEN pieces[1]
    ELSE pieces[1] \o <<delimiter>> \o join(Tail(pieces), delimiter)

\* The lines of the file that holds a table, written with a delimiter.
text_of(table) ==
    <<join(table.fieldnames, table.delimiter)>>
        \o [i \in 1..Len(table.rows) |-> join(table.rows[i], table.delimiter)]

\* read_companies on the lines of a file: the first line is the header.
read_companies_text(lines, delimiter) ==
    read_companies_of(
        [fieldnames |-> csv_reader(lines[1], delimiter),
         rows |-> [i \in 1..(Len(lines) - 1) |->
                      csv_reader(lines[i + 1], delimiter)]])

\* The reader the upload builds: AsyncCSVReader(str(stored_path)), whose
\* delimiter is the default of __init__.
DEFAULT_DELIMITER == ","

upload_reader(lines) == read_companies_text(lines, DEFAULT_DELIMITER)

\* The headers _extract_key_fields looks up, transliterated, and the
\* sentinel of the support measures, "Polucheny".
KeyHeaders ==
    [inn |-> <<"INN">>,
     name |-> <<"Naimenovanie organizatsii">>,
     full_name |-> <<"Polnoe naimenovanie organizatsii">>,
     spark_status |-> <<"Status SPARK">>,
     main_industry |-> <<"Osnovnaya otrasl">>,
     company_size_final |-> <<"Razmer predpriyatiya (itog)">>,
     organization_type |-> <<"Tip organizatsii">>,
     support_measures |-> <<"Dannye o merakh podderzhki">>,
     special_status |-> <<"Nalichie osobogo statusa">>]
GRANTED == <<"P", "o", "l", "u", "c", "h", "e", "n", "y">>

\* dict.get: None for a key the record does not have.
row_get(row, key) == IF key \in DOMAIN row THEN row[key] ELSE CellNone

\* _extract_key_fields on a record of read_companies_of
extract_key_fields_of(row) ==
    [field \in DOMAIN KeyHeaders |-> row_get(row, KeyHeaders[field])]

\* bool(v) of a cleaned value
truthy_value(v) ==
    \/ v.t \in {"int", "float"} /\ v.n # 0
    \/ v.t = "str" /\ v.chars # <<>>

RECURSIVE power_of_ten(_)
power_of_ten(e) == IF e = 0 THEN 1 ELSE 10 * power_of_ten(e - 1)

\* int(v): the number itself, a float truncated; ValueError for a text,
\* which _clean_value left a text because it is no number.
int_of_value_raises(v) == v.t = "str"
int_of_value(v) == IF v.t = "float" THEN v.n \div power_of_ten(v.e) ELSE v.n

\* `v or ""'
value_or_empty(v) == IF truthy_value(v) THEN v ELSE CellStr(<<>>)

\* Company(...) of step 5, before the flush gives it an id.
company_of(key_field, company_data) ==
    [inn |-> IF truthy_value(key_field.inn) THEN int_of_value(key_field.inn)
             ELSE 0,
     name |-> value_or_empty(key_field.name),
     main_industry |-> value_or_empty(key_field.main_industry),
     organization_type |-> key_field.organization_type,
     support_measures |-> key_field.support_measures = CellStr(GRANTED),
     special_status |-> key_field.special_status,
     json_data |-> company_data]

\* Steps 4 and 5 of upload_csv_file on the lines of the stored file, up to
\* the rows handed to the session: 500 when the reader or int() raises.
ingest(lines) ==
    LET read == upload_reader(lines)
        key_fields == [i \in 1..Len(read.records) |->
                          extract_key_fields_of(read.records[i])]
    IN IF read.raised
          \/ \E i \in 1..Len(key_fields) :
                /\ truthy_value(key_fields[i].inn)
                /\ int_of_value_raises(key_fields[i].inn)
       THEN [status |-> "500", records |-> <<>>, companies |-> <<>>]
       ELSE [status |-> "200", records |-> read.records,
             companies |-> [i \in 1..Len(key_fields) |->
                               company_of(key_fields[i], read.records[i])]]

\* The tables of the ingested files: a tax identifier column, and beside it
\* the support column, a column called number, or none.  No cell holds a
\* delimiter, so that the file needs no quoting.
IngestHeaders ==
    {<<KeyHeaders.inn, KeyHeaders.support_measures>>, <<KeyHeaders.inn>>,
     <<KeyHeaders.inn, number_key>>}
IngestInnCells == {<<"1">>, <<"a">>}
SupportCells ==
    {<<>>, GRANTED, <<" ">> \o GRANTED, GRANTED \o <<" ">>,
     SubSeq(GRANTED, 1, Len(GRANTED) - 1), <<"p">> \o Tail(GRANTED), <<"1">>}
IngestRows ==
    {<<inn>> : inn \in IngestInnCells}
        \cup {<<inn, cell>> : inn \in IngestInnCells, cell \in SupportCells}
Delimiters == {",", ";"}
Tables ==
    [fieldnames : IngestHeaders,
     rows : UNION {[1..n -> IngestRows] : n \in 0..MaxIngestRows},
     delimiter : Delimiters]

\* One upload of the file that holds the table given, read and turned into
\* Company rows.
IngestFile ==
    /\ csv_result = None
    /\ csv_content # None
    /\ csv_result' = Some(ingest(text_of(csv_content[1])))
    /\ UNCHANGED <<csv_content, resp>>
    /\ UNCHANGED <<data_vars, company_vars, auth_vars, session_vars>>

\* ------------------------------------------------------------------------
\* Upload: src/src/api/files.py
\* ------------------------------------------------------------------------
Users == {"u1", "u2"}

\* The user who uploads, and confirms, in the edit and summary
\* specifications; the other one owns nothing there.
Uploaders == {"u1"}

MAX_FILE_SIZE_BYTES == 5 * 1024 * 1024
SUMMARY_SHOWN == 5
READ_CHUNK_BYTES == 1024 * 1024

Min(a, b) == IF a < b THEN a ELSE b

\* The file read to its end without a ceiling.
stream_upload_unchecked(total, remaining) ==
    [ok |-> TRUE, total |-> total + remaining]

\* Step 3 of upload_csv_file: the file is read chunk by chunk and the
\* request is refused as soon as the running total exceeds the ceiling.
RECURSIVE stream_upload(_, _)
stream_upload(total, remaining) ==
    IF remaining = 0
    THEN [ok |-> TRUE, total |-> total]
    ELSE LET chunk == Min(remaining, READ_CHUNK_BYTES)
         IN  IF total + chunk > MAX_FILE_SIZE_BYTES
             THEN [ok |-> FALSE, total |-> total + chunk]
             ELSE stream_upload(total + chunk, remaining - chunk)

\* Truthiness of a key field, as in `x if x else 0` and `x or ""`.
truthy(v) ==
    \/ v.t = "int" /\ v.n # 0
    \/ v.t = "str" /\ v.s # ""

\* int(key_field["inn"]) raises ValueError for a text that is no number.
int_raises(v) == v.t = "str"

\* Company(...) of step 5, with the id the flush gives it.
new_company(id, key_field, company_data) ==
    [id |-> id,
     inn |-> IF truthy(key_field.inn) THEN key_field.inn.n ELSE 0,
     name |-> IF truthy(key_field.name) THEN key_field.name ELSE PyStr(""),
     main_industry |-> PyStr(""),
     created_at |-> "at_upload",
     updated_at |-> "at_upload",
     confirmation_status |-> "not_confirmed",
     confirmed_at |-> None,
     confirmer_identifier |-> None,
     json_data |-> company_data]

\* A session: the rows added and flushed but not committed.
EmptySession == [companies |-> <<>>, user_base |-> <<>>]

\* An upsert by inn: a company whose inn is already stored or pending is
\* not added again.
session_add_company_dedup(db, session, company) ==
    LET same_inn(c) == c.inn = company.inn
    IN  IF SelectSeq(db.companies \o session.companies, same_inn) # <<>>
        THEN session
        ELSE [session EXCEPT !.companies = Append(@, company)]

\* session.add(company); session.flush(): an INSERT, whatever db holds.
session_add_company(db, session, company) ==
    [session EXCEPT !.companies = Append(@, company)]

\* session.add(user_base) without the company: the link is never stored.
session_add_link_lost(session, link) == session

\* session.add(user_base)
session_add_link(session, link) ==
    [session EXCEPT !.user_base = Append(@, link)]

\* A commit that leaves the last flushed company and its link behind.
commit_all_but_last(db, session) ==
    [companies |-> db.companies
                       \o SubSeq(session.companies, 1, Len(session.companies) - 1),
     user_base |-> db.user_base
                       \o SubSeq(session.user_base, 1, Len(session.user_base) - 1)]

\* A commit that writes the session's links and leaves its companies out.
commit_links_only(db, session) ==
    [companies |-> db.companies,
     user_base |-> db.user_base \o session.user_base]

\* session.commit(): the session's rows become visible, all at once.
commit(db, session) ==
    [companies |-> db.companies \o session.companies,
     user_base |-> db.user_base \o session.user_base]

\* A rollback that keeps what was flushed, as a commit per row would.
rollback_keeps_flushed(db, session) ==
    [companies |-> db.companies \o session.companies,
     user_base |-> db.user_base \o session.user_base]

\* session.rollback(): the session's rows are dropped.
rollback(db, session) == db

\* An id computed from the number of stored companies.
next_company_id_by_count(id_seq, db) == Len(db.companies) + 1

\* The id Postgres gives a flushed company: the next value of the sequence,
\* which a rollback does not give back.
next_company_id(id_seq, db) == id_seq + 1

Db == [companies |-> companies, user_base |-> user_base]

\* No upload in flight.  status and saved are those of the user's last
\* upload: saved_companies as the summary reports it, or as it stood when
\* the upload failed.
IdleUpload(status, saved) ==
    [pc |-> "idle", status |-> status, rows |-> <<>>, total_rows |-> 0,
     session |-> EmptySession, saved |-> saved]

\* An uploaded file: its size, whether its type passes step 1, whether it
\* decodes as UTF-8, and its data rows.
RawRows ==
    UNION { [1..n -> {<<i, m>> : i \in InnCells, m \in NameCells}] : n \in 0..MaxRows }

FileSizes == {MAX_FILE_SIZE_BYTES, MAX_FILE_SIZE_BYTES + 1}

\* The rows of a file that is refused before it is read play no part, so
\* the refused files of the model have none.
Payloads ==
    [size : {MAX_FILE_SIZE_BYTES}, csv_type : {TRUE}, utf8 : {TRUE}, rows : RawRows]
        \cup { f \in [size : FileSizes, csv_type : BOOLEAN, utf8 : BOOLEAN,
                      rows : {<<>>}] :
                 ~f.csv_type \/ f.size > MAX_FILE_SIZE_BYTES \/ ~f.utf8 }

\* A reading that decodes leniently and goes on with what it could read.
UploadReceive_decodes_leniently(u, file) ==
    /\ up[u].pc = "idle"
    /\ UNCHANGED <<companies, user_base, company_id_seq, deleted, resp>>
    /\ UNCHANGED <<data_vars, reader_vars, auth_vars, session_vars>>
    /\ IF ~file.csv_type
       THEN up' = [up EXCEPT ![u] = IdleUpload("415", <<>>)]
       ELSE IF ~stream_upload(0, file.size).ok
       THEN up' = [up EXCEPT ![u] = IdleUpload("413", <<>>)]
       ELSE up' = [up EXCEPT ![u] =
                      [pc |-> "rows", status |-> "none",
                       rows |-> read_companies(file.rows),
                       total_rows |-> Len(read_companies(file.rows)),
                       session |-> EmptySession, saved |-> <<>>]]

\* upload_csv_file up to the opening of the session: type check, streaming
\* with the size ceiling, reading of the file.
UploadReceive(u, file) ==
    /\ up[u].pc = "idle"
    /\ UNCHANGED <<companies, user_base, company_id_seq, deleted, resp>>
    /\ UNCHANGED <<data_vars, reader_vars, auth_vars, session_vars>>
    /\ IF ~file.csv_type
       THEN up' = [up EXCEPT ![u] = IdleUpload("415", <<>>)]
       ELSE IF ~stream_upload(0, file.size).ok
       THEN up' = [up EXCEPT ![u] = IdleUpload("413", <<>>)]
       ELSE IF ~file.utf8
       THEN up' = [up EXCEPT ![u] = IdleUpload("500", <<>>)]
       ELSE up' = [up EXCEPT ![u] =
                      [pc |-> "rows", status |-> "none",
                       rows |-> read_companies(file.rows),
                       total_rows |-> Len(read_companies(file.rows)),
                       session |-> EmptySession, saved |-> <<>>]]

\* A loop that notes a failing row and goes on to the next one.
UploadRow_skips_failed(u) ==
    /\ up[u].pc = "rows"
    /\ up[u].rows # <<>>
    /\ LET company_data == Head(up[u].rows)
           key_field == extract_key_fields(company_data)
       IN  IF int_raises(key_field.inn)
           THEN /\ up' = [up EXCEPT ![u].rows = Tail(@)]
                /\ UNCHANGED <<companies, user_base, company_id_seq>>
           ELSE LET id == next_company_id(company_id_seq, Db)
                    company == new_company(id, key_field, company_data)
                    flushed == session_add_company(Db, up[u].session, company)
                    linked == session_add_link(flushed,
                                  [user_id |-> u, company_id |-> company.id])
                IN  /\ id <= MaxCompanyId
                    /\ company_id_seq' = id
                    /\ up' = [up EXCEPT ![u].rows = Tail(@),
                                        ![u].session = linked,
                                        ![u].saved = Append(@, company.id)]
                    /\ UNCHANGED <<companies, user_base>>
    /\ UNCHANGED <<deleted, resp>>
    /\ UNCHANGED <<data_vars, reader_vars, auth_vars, session_vars>>

\* One turn of the loop of step 5: the company is built, added and flushed,
\* its link is added.  An exception rolls the session back and ends the
\* request with 500.
UploadRow(u) ==
    /\ up[u].pc = "rows"
    /\ up[u].rows # <<>>
    /\ LET company_data == Head(up[u].rows)
           key_field == extract_key_fields(company_data)
       IN  IF int_raises(key_field.inn)
           THEN LET db == rollback(Db, up[u].session)
                IN  /\ companies' = db.companies
                    /\ user_base' = db.user_base
                    /\ up' = [up EXCEPT ![u] = IdleUpload("500", up[u].saved)]
                    /\ UNCHANGED company_id_seq
           ELSE LET id == next_company_id(company_id_seq, Db)
                    company == new_company(id, key_field, company_data)
                    flushed == session_add_company(Db, up[u].session, company)
                    linked == session_add_link(flushed,
                                  [user_id |-> u, company_id |-> company.id])
                IN  /\ id <= MaxCompanyId
                    /\ company_id_seq' = id
                    /\ up' = [up EXCEPT ![u].rows = Tail(@),
                                        ![u].session = linked,
                                        ![u].saved = Append(@, company.id)]
                    /\ UNCHANGED <<companies, user_base>>
    /\ UNCHANGED <<deleted, resp>>
    /\ UNCHANGED <<data_vars, reader_vars, auth_vars, session_vars>>

\* session.commit() after the last row, and the summary.
UploadCommit(u) ==
    /\ up[u].pc = "rows"
    /\ up[u].rows = <<>>
    /\ LET db == commit(Db, up[u].session)
       IN  /\ companies' = db.companies
           /\ user_base' = db.user_base
    /\ up' = [up EXCEPT ![u] = IdleUpload("200", up[u].saved)]
    /\ UNCHANGED <<company_id_seq, deleted, resp>>
    /\ UNCHANGED <<data_vars, reader_vars, auth_vars, session_vars>>

\* The loop of step 5 run to its end or to its first exception: what it
\* leaves of the sequence, the session and saved_companies.
RECURSIVE save_rows(_, _, _, _, _)
save_rows(u, rows, id_seq, session, saved_companies) ==
    IF rows = <<>>
    THEN [ok |-> TRUE, id_seq |-> id_seq, session |-> session,
          saved |-> saved_companies]
    ELSE LET company_data == Head(rows)
             key_field == extract_key_fields(company_data)
         IN  IF int_raises(key_field.inn)
             THEN [ok |-> FALSE, id_seq |-> id_seq, session |-> session,
                   saved |-> saved_companies]
             ELSE LET id == next_company_id(id_seq, Db)
                      company == new_company(id, key_field, company_data)
                      flushed == session_add_company(Db, session, company)
                      linked == session_add_link(flushed,
                                    [user_id |-> u, company_id |-> company.id])
                  IN  save_rows(u, Tail(rows), id, linked,
                                Append(saved_companies, company.id))

\* A summary whose count is the length of the list it shows.
upload_summary_counts_shown(saved_companies) ==
    [companies_processed |-> Min(SUMMARY_SHOWN, Len(saved_companies)),
     companies_saved |->
         SubSeq(saved_companies, 1, Min(SUMMARY_SHOWN, Len(saved_companies)))]

\* The response of upload_csv_file: len(saved_companies) and
\* saved_companies[:5].
upload_summary(saved_companies) ==
    [companies_processed |-> Len(saved_companies),
     companies_saved |->
         SubSeq(saved_companies, 1, Min(SUMMARY_SHOWN, Len(saved_companies)))]

\* upload_csv_file from its first line to its response, with no other
\* request in between.
UploadFile(u, file) ==
    /\ up[u].pc = "idle"
    /\ UNCHANGED <<deleted, resp>>
    /\ UNCHANGED <<data_vars, reader_vars, auth_vars, session_vars>>
    /\ IF ~file.csv_type
       THEN /\ up' = [up EXCEPT ![u] = IdleUpload("415", <<>>)]
            /\ UNCHANGED <<companies, user_base, company_id_seq>>
       ELSE IF ~stream_upload(0, file.size).ok
       THEN /\ up' = [up EXCEPT ![u] = IdleUpload("413", <<>>)]
            /\ UNCHANGED <<companies, user_base, company_id_seq>>
       ELSE IF ~file.utf8
       THEN /\ up' = [up EXCEPT ![u] = IdleUpload("500", <<>>)]
            /\ UNCHANGED <<companies, user_base, company_id_seq>>
       ELSE LET done == save_rows(u, read_companies(file.rows), company_id_seq,
                                  EmptySession, <<>>)
                db == IF done.ok THEN commit(Db, done.session)
                      ELSE rollback(Db, done.session)
            IN  /\ done.id_seq <= MaxSummaryIds
                /\ company_id_seq' = done.id_seq
                /\ companies' = db.companies
                /\ user_base' = db.user_base
                /\ up' = [up EXCEPT ![u] =
                             IdleUpload(IF done.ok THEN "200" ELSE "500", done.saved)]

\* The request is cut off inside the loop (the worker is stopped or loses
\* its connection): the commit is never reached, the database drops the
\* open transaction and no response is sent.
UploadAbort(u) ==
    /\ up[u].pc = "rows"
    /\ up' = [up EXCEPT ![u] = IdleUpload("none", <<>>)]
    /\ UNCHANGED <<companies, user_base, company_id_seq, deleted, resp>>
    /\ UNCHANGED <<data_vars, reader_vars, auth_vars, session_vars>>

\* ------------------------------------------------------------------------
\* Companies: src/src/api/companies.py
\* ------------------------------------------------------------------------
\* select(Company).join(link).where(link.user_id == user): the companies
\* with a link of the user, one result per link.
companies_of(db, user_id) ==
    LET owned(c) == \E k \in 1..Len(db.user_base) :
                        /\ db.user_base[k].company_id = c.id
                        /\ db.user_base[k].user_id = user_id
    IN  SelectSeq(db.companies, owned)

\* get_user_companies: .limit(limit).offset(offset) of the join.
get_user_companies(db, user_id, limit, offset) ==
    LET all == companies_of(db, user_id)
    IN  SubSeq(all, offset + 1, Min(Len(all), offset + limit))

\* A lookup by id alone, whoever asks.
check_company_by_id_only(db, company_id, user_id) ==
    LET mine(c) == c.id = company_id
    IN  SelectSeq(db.companies, mine)

\* check_company_ownership: the company, when a link of the user exists.
check_company_ownership(db, company_id, user_id) ==
    LET mine(c) == c.id = company_id
    IN  SelectSeq(companies_of(db, user_id), mine)

\* The first match removed from a sequence.
RECURSIVE remove_first(_, _)
remove_first(seq, row) ==
    IF seq = <<>> THEN <<>>
    ELSE IF Head(seq) = row THEN Tail(seq)
    ELSE <<Head(seq)>> \o remove_first(Tail(seq), row)

\* Lines 406-413 of delete_company: the first link of the user to the
\* company is deleted.
delete_link(links, user_id, company_id) ==
    remove_first(links, [user_id |-> user_id, company_id |-> company_id])

\* delete_company on a store that does not check the foreign key: the
\* company is deleted, its link stays.
DeleteCompany_keeps_link(u, company_id) ==
    /\ LET found == check_company_ownership(Db, company_id, u)
           is_other(c) == c.id # company_id
       IN  IF found = <<>>
           THEN /\ resp' = "404"
                /\ UNCHANGED <<companies, user_base, deleted>>
           ELSE /\ companies' = SelectSeq(companies, is_other)
                /\ deleted' = deleted \cup {company_id}
                /\ resp' = "200"
                /\ UNCHANGED user_base
    /\ UNCHANGED <<company_id_seq, up>>
    /\ UNCHANGED <<data_vars, reader_vars, auth_vars, session_vars>>

\* delete_company: 404 without ownership; else the link and the company are
\* deleted in one commit, which a remaining reference to the company makes
\* fail (foreign key of user_base.company_id).
DeleteCompany(u, company_id) ==
    /\ LET found == check_company_ownership(Db, company_id, u)
       IN  IF found = <<>>
           THEN /\ resp' = "404"
                /\ UNCHANGED <<companies, user_base, deleted>>
           ELSE LET links == delete_link(user_base, u, company_id)
                    is_company(c) == c.id = company_id
                    is_other(c) == c.id # company_id
                IN  IF \E k \in 1..Len(links) : links[k].company_id = company_id
                    THEN /\ resp' = "500"
                         /\ UNCHANGED <<companies, user_base, deleted>>
                    ELSE /\ user_base' = links
                         /\ companies' = SelectSeq(companies, is_other)
                         /\ deleted' = deleted \cup {company_id}
                         /\ resp' = "200"
    /\ UNCHANGED <<company_id_seq, up>>
    /\ UNCHANGED <<data_vars, reader_vars, auth_vars, session_vars>>

CompanyIds == 1..MaxCompanyId

\* The company with one row replaced, the order of the table kept.
replace_company(table, company) ==
    [k \in 1..Len(table) |->
        IF table[k].id = company.id THEN company ELSE table[k]]

\* The company rewritten and met last by a scan of the table.
move_company_to_end(table, company) ==
    LET is_other(c) == c.id # company.id
    IN  Append(SelectSeq(table, is_other), company)

\* The table after the commit of an UPDATE of one company.  The queries of
\* the source have no ORDER BY, and the database writes a new version of an
\* updated row: a later scan meets the row at its old place or after the
\* rows that were stored before the update.
updated_tables(table, company) ==
    {replace_company(table, company), move_company_to_end(table, company)}

\* A CompanyUpdateRequest as pydantic holds it: the fields the body carried
\* and their values, None for an absent field and for a field sent as null.
\* Of its fields the model's requests carry name.
CompanyUpdateFields == {"name"}

CompanyUpdateRequests ==
    { r \in [set : SUBSET CompanyUpdateFields,
             val : [name : {None, Some(PyStr("NEW"))}]] :
        \A f \in CompanyUpdateFields : f \notin r.set => r.val[f] = None }

\* A CompanyKeyMetricsUpdate: of its fields the model's requests carry
\* main_industry, which an upload of the model's files stores as "".
CompanyKeyMetricsUpdates ==
    { r \in [set : SUBSET {"main_industry"},
             val : [main_industry : {None, Some(PyStr("NEW"))}]] :
        "main_industry" \notin r.set => r.val.main_industry = None }

\* A stamp that resets the creation time along with the update time.
touch_resets_created_at(company) ==
    [company EXCEPT !.updated_at = "after_upload", !.created_at = "after_upload"]

\* company.updated_at = datetime.now(timezone.utc), a time after the upload.
touch(company) == [company EXCEPT !.updated_at = "after_upload"]

\* A setattr loop that writes the confirmation status along with the edit.
apply_company_update_confirming(company, update_data) ==
    [f \in DOMAIN company |->
        IF f = "confirmation_status" THEN "user_confirmed"
        ELSE IF f \in update_data.set /\ update_data.val[f] # None
        THEN update_data.val[f][1]
        ELSE company[f]]

\* A setattr loop that writes every carried field, a null included.
apply_company_update_writes_null(company, update_data) ==
    [f \in DOMAIN company |->
        IF f \in update_data.set
        THEN IF update_data.val[f] # None THEN update_data.val[f][1] ELSE PyNone
        ELSE company[f]]

\* The loop of update_company and of update_company_key_metrics: a carried
\* field is written unless its value is None.
apply_company_update(company, update_data) ==
    [f \in DOMAIN company |->
        IF f \in update_data.set /\ update_data.val[f] # None
        THEN update_data.val[f][1]
        ELSE company[f]]

\* update_company: 404 without ownership, else the loop and a commit.
UpdateCompany(u, company_id, update_data) ==
    /\ UNCHANGED <<user_base, company_id_seq, up, deleted>>
    /\ UNCHANGED <<data_vars, reader_vars, auth_vars, session_vars>>
    /\ LET found == check_company_ownership(Db, company_id, u)
       IN  IF found = <<>>
           THEN /\ resp' = "404"
                /\ UNCHANGED companies
           ELSE /\ companies' \in updated_tables(companies,
                                    touch(apply_company_update(found[1], update_data)))
                /\ resp' = "200"

\* update_company_key_metrics: 404 without ownership, else the loop and a
\* commit.
UpdateCompanyKeyMetrics(u, company_id, metrics_data) ==
    /\ UNCHANGED <<user_base, company_id_seq, up, deleted>>
    /\ UNCHANGED <<data_vars, reader_vars, auth_vars, session_vars>>
    /\ LET found == check_company_ownership(Db, company_id, u)
       IN  IF found = <<>>
           THEN /\ resp' = "404"
                /\ UNCHANGED companies
           ELSE /\ companies' \in updated_tables(companies,
                                    touch(apply_company_update(found[1], metrics_data)))
                /\ resp' = "200"

\* get_company, get_company_details: 404 without ownership, else the
\* company is returned.
GetCompany(u, company_id) ==
    /\ UNCHANGED <<companies, user_base, company_id_seq, up, deleted>>
    /\ UNCHANGED <<data_vars, reader_vars, auth_vars, session_vars>>
    /\ resp' = IF check_company_ownership(Db, company_id, u) = <<>>
               THEN "404" ELSE "200"

\* The body of update_company_json_data: the new payload of a company.
JsonPayloads ==
    { [INN |-> PyInt(7701), NAME |-> PyStr("NEW"), number |-> 1] }

\* update_company_json_data: 404 without ownership, else json_data is
\* replaced and committed.
UpdateCompanyJsonData(u, company_id, json_data) ==
    /\ UNCHANGED <<user_base, company_id_seq, up, deleted>>
    /\ UNCHANGED <<data_vars, reader_vars, auth_vars, session_vars>>
    /\ LET found == check_company_ownership(Db, company_id, u)
       IN  IF found = <<>>
           THEN /\ resp' = "404"
                /\ UNCHANGED companies
           ELSE /\ companies' \in updated_tables(companies,
                                    touch([found[1] EXCEPT !.json_data = json_data]))
                /\ resp' = "200"

\* ConfirmationStatus
ConfirmationStates == {"confirmed", "user_confirmed", "not_confirmed"}

\* A request to confirm a company: the status asked for and who asks.
ConfirmRequests == [kind : ConfirmationStates, confirmer : Uploaders]

\* CompanyUpdate built from such a request: the model has the fields
\* confirmed_at and confirmer_identifier and none for the status, so the
\* status the request names is dropped.
CompanyUpdate(request) ==
    [set |-> {"confirmed_at", "confirmer_identifier"},
     val |-> [confirmed_at |-> Some("now"),
              confirmer_identifier |-> Some(request.confirmer)]]

\* CompanyRepository.update on a company: the setattr loop over the fields
\* the CompanyUpdate carries, and a commit.
update_company_row(db_obj, obj_in) ==
    [f \in DOMAIN db_obj |->
        IF f \in obj_in.set THEN obj_in.val[f] ELSE db_obj[f]]

\* The only operation of the source that writes the confirmation metadata:
\* CompanyRepository.update with a CompanyUpdate, on a stored company.
ConfirmCompany(company_id, request) ==
    /\ UNCHANGED <<user_base, company_id_seq, up, deleted>>
    /\ UNCHANGED <<data_vars, reader_vars, auth_vars, session_vars>>
    /\ \E k \in 1..Len(companies) :
          /\ companies[k].id = company_id
          /\ companies' \in updated_tables(companies,
                              update_company_row(companies[k], CompanyUpdate(request)))
    /\ resp' = "200"

\* ------------------------------------------------------------------------
\* Registration: src/src/api/auth.py, src/src/repositories/user_repository.py
\* ------------------------------------------------------------------------
MaxUsers == 4          \* rows ever inserted into users

Usernames == {"alice", "bob", "carol"}

IdleRegister == [pc |-> "idle", username |-> None]

\* UserRepository.get_by_username: the rows with the username, of which the
\* caller takes the first.
get_by_username(table, username) ==
    SelectSeq(table, LAMBDA user : user.username = username)

\* UserRepository.create: add, commit, refresh.  The username column is
\* declared without a unique constraint, so the INSERT succeeds whatever
\* the table holds; no row of users is ever deleted, so the next id is the
\* number of rows plus one.
user_create(table, username) ==
    Append(table, [id |-> Len(table) + 1, username |-> username])

\* register up to its existence check: 400 when the username is taken.
RegisterLookup(p, username) ==
    /\ reg[p].pc = "idle"
    /\ IF get_by_username(users, username) # <<>>
       THEN /\ resp' = "400"
            /\ UNCHANGED reg
       ELSE /\ reg' = [reg EXCEPT ![p] = [pc |-> "create",
                                          username |-> Some(username)]]
            /\ UNCHANGED resp
    /\ UNCHANGED users
    /\ UNCHANGED <<data_vars, company_vars, reader_vars, session_vars>>

\* register from the hashing of the password to its response: the user is
\* created and committed.
RegisterCreate(p) ==
    /\ reg[p].pc = "create"
    /\ Len(users) < MaxUsers
    /\ users' = user_create(users, reg[p].username[1])
    /\ reg' = [reg EXCEPT ![p] = IdleRegister]
    /\ resp' = "201"
    /\ UNCHANGED <<data_vars, company_vars, reader_vars, session_vars>>

\* ------------------------------------------------------------------------
\* Specifications
\* ------------------------------------------------------------------------
CompanyInit ==
    /\ companies = <<>>
    /\ user_base = <<>>
    /\ company_id_seq = 0
    /\ up = [u \in Users |-> IdleUpload("none", <<>>)]
    /\ deleted = {}

DataInit ==
    /\ consolidated_data = {}
    /\ cd_id_seq = 0
    /\ req = [p \in Clients |-> Idle]

\* ------------------------------------------------------------------------
\* The database session of a handler call
\* ------------------------------------------------------------------------
\* The handlers that open a session with get_session() or db.getSession().
Handlers ==
    {"upload_csv_file", "get_user_companies", "get_company", "update_company",
     "update_company_key_metrics", "update_company_json_data",
     "get_company_json_data", "delete_company", "get_current_user"}

\* The handlers that add or delete rows and commit.
Writers ==
    {"upload_csv_file", "update_company", "update_company_key_metrics",
     "update_company_json_data", "delete_company"}

\* The handlers whose try block raises an HTTPException of its own:
\* check_company_ownership raises 404, get_current_user raises 401.
RaisesHTTPException ==
    {"get_company", "update_company", "update_company_key_metrics",
     "update_company_json_data", "get_company_json_data", "delete_company",
     "get_current_user"}

\* The handlers that can end before they open a session: upload_csv_file
\* refuses or fails to read the file, get_current_user refuses the token.
EndsBeforeSession == {"upload_csv_file", "get_current_user"}

\* The handlers with an `except Exception` clause around the session's use;
\* get_current_user has try/finally only.
CatchesException == Handlers \ {"get_current_user"}

\* No call in flight.
IdleCall ==
    [handler |-> "none", pc |-> "idle", session |-> "none", tx |-> "clean",
     status |-> "none"]

\* A finally clause that leaves the session as it is.
session_close_skipped(call) == call

\* session.close()
session_close(call) == [call EXCEPT !.session = "closed"]

\* session.rollback(): the pending or failed writes of the session are
\* discarded.
session_rollback(call) ==
    [call EXCEPT !.tx = IF @ \in {"pending", "failed"} THEN "rolled_back" ELSE @]

\* The call of a handler up to its try block: the session is opened, unless
\* the handler ends before that.
Enter(p, h, accepted) ==
    /\ calls[p].pc = "idle"
    /\ accepted \/ h \in EndsBeforeSession
    /\ calls' = [calls EXCEPT ![p] =
                    IF accepted
                    THEN [IdleCall EXCEPT !.handler = h, !.pc = "try",
                                          !.session = "open"]
                    ELSE [IdleCall EXCEPT !.handler = h, !.pc = "returned",
                                          !.status = "refused"]]
    /\ UNCHANGED <<data_vars, company_vars, reader_vars, auth_vars, resp>>

\* The try block up to its writes: the queries succeed, or the handler
\* raises its HTTPException, or a statement raises another exception.
TryBody(p, outcome) ==
    /\ calls[p].pc = "try"
    /\ LET call == calls[p]
           h == call.handler
       IN  CASE outcome = "ok" ->
                    calls' = [calls EXCEPT ![p] =
                        IF h \in Writers
                        THEN [call EXCEPT !.pc = "write"]
                        ELSE [call EXCEPT !.pc = "finally", !.status = "200"]]
             [] outcome = "denied" ->
                    /\ h \in RaisesHTTPException
                    /\ calls' = [calls EXCEPT ![p] =
                          [call EXCEPT !.pc = "finally", !.status = "4xx"]]
             [] outcome = "exception" ->
                    calls' = [calls EXCEPT ![p] =
                        IF h \in CatchesException
                        THEN [call EXCEPT !.pc = "except"]
                        ELSE [call EXCEPT !.pc = "finally", !.status = "500"]]
    /\ UNCHANGED <<data_vars, company_vars, reader_vars, auth_vars, resp>>

\* session.add, session.flush, session.delete of a writer: the session holds
\* writes that are not committed; the flush may raise, and so may a
\* statement after it, as the conversion of the next row does in the upload.
Write(p, outcome) ==
    /\ calls[p].pc = "write"
    /\ calls' = [calls EXCEPT ![p] =
                    CASE outcome = "ok" -> [@ EXCEPT !.tx = "pending", !.pc = "commit"]
                      [] outcome = "flush_raises" ->
                             [@ EXCEPT !.tx = "failed", !.pc = "except"]
                      [] outcome = "raises" ->
                             [@ EXCEPT !.tx = "pending", !.pc = "except"]]
    /\ UNCHANGED <<data_vars, company_vars, reader_vars, auth_vars, resp>>

\* session.commit() of a writer, which succeeds or raises.
Commit(p, ok) ==
    /\ calls[p].pc = "commit"
    /\ calls' = [calls EXCEPT ![p] =
                    IF ok
                    THEN [@ EXCEPT !.tx = "committed", !.pc = "finally",
                                   !.status = "200"]
                    ELSE [@ EXCEPT !.tx = "failed", !.pc = "except"]]
    /\ UNCHANGED <<data_vars, company_vars, reader_vars, auth_vars, resp>>

\* The `except Exception` clause: a writer rolls back, and every handler
\* answers 500.
Except(p) ==
    /\ calls[p].pc = "except"
    /\ LET call == [calls[p] EXCEPT !.pc = "finally", !.status = "500"]
       IN  calls' = [calls EXCEPT ![p] =
                        IF call.handler \in Writers
                        THEN session_rollback(call) ELSE call]
    /\ UNCHANGED <<data_vars, company_vars, reader_vars, auth_vars, resp>>

\* The finally clause: session.close().
Finally(p) ==
    /\ calls[p].pc = "finally"
    /\ calls' = [calls EXCEPT ![p] = [session_close(@) EXCEPT !.pc = "returned"]]
    /\ UNCHANGED <<data_vars, company_vars, reader_vars, auth_vars, resp>>

\* The response of a returned call is sent.
Return(p) ==
    /\ calls[p].pc = "returned"
    /\ resp' = calls[p].status
    /\ calls' = [calls EXCEPT ![p] = IdleCall]
    /\ UNCHANGED <<data_vars, company_vars, reader_vars, auth_vars>>

SessionInit == calls = [p \in Clients |-> IdleCall]

ReaderInit ==
    /\ csv_content = None
    /\ csv_result = None

AuthInit ==
    /\ users = <<>>
    /\ reg = [p \in Clients |-> IdleRegister]

Init ==
    /\ DataInit
    /\ CompanyInit
    /\ ReaderInit
    /\ AuthInit
    /\ SessionInit
    /\ resp = "none"

\* The company store.
Next ==
    \/ \E u \in Users, file \in Payloads : UploadReceive(u, file)
    \/ \E u \in Users : UploadRow(u)
    \/ \E u \in Users : UploadCommit(u)
    \/ \E u \in Users : UploadAbort(u)
    \/ \E u \in Users, company_id \in CompanyIds : DeleteCompany(u, company_id)

Spec == Init /\ [][Next]_vars

\* The consolidated-record store.
DataNext ==
    \/ \E p \in Clients, data_in \in NewRecords : CreateLookup(p, data_in)
    \/ \E p \in Clients : CreateInsert(p)
    \/ \E p \in Clients, item \in PopulateItems : PopulateLookup(p, item)
    \/ \E record_id \in RecordIds, data_update \in UpdateInputs :
           UpdateData(record_id, data_update)
    \/ \E record_id \in RecordIds : DeleteData(record_id)

DataSpec == Init /\ [][DataNext]_vars

\* The files of the edit specification: accepted, every row well formed.
EditPayloads ==
    { f \in Payloads :
        /\ f.size <= MAX_FILE_SIZE_BYTES /\ f.csv_type /\ f.utf8
        /\ f.rows # <<>>
        /\ \A i \in 1..Len(f.rows) : f.rows[i][1] \in DigitCells }

\* The files of the summary specification: accepted files of up to
\* MaxSummaryRows well-formed rows, and one whose last row is malformed.
SummaryPayloads ==
    { [size |-> MAX_FILE_SIZE_BYTES, csv_type |-> TRUE, utf8 |-> TRUE,
       rows |-> [i \in 1..n |-> <<"7701", "ACME">>]] : n \in 0..MaxSummaryRows }
        \cup { [size |-> MAX_FILE_SIZE_BYTES, csv_type |-> TRUE, utf8 |-> TRUE,
                rows |-> <<<<"7701", "ACME">>, <<"x77", "ACME">>>>] }

\* Uploads that run one after the other, each from its first step to its
\* response.
SummaryNext ==
    \E u \in Uploaders, file \in SummaryPayloads : UploadFile(u, file)

SummarySpec == Init /\ [][SummaryNext]_vars

\* The life of a stored company: uploads of well-formed files, edits of its
\* fields and its payload, and the writing of its confirmation metadata.
EditNext ==
    \/ \E u \in Uploaders, file \in EditPayloads : UploadReceive(u, file)
    \/ \E u \in Uploaders : UploadRow(u)
    \/ \E u \in Uploaders : UploadCommit(u)
    \/ \E u \in Users, company_id \in CompanyIds,
          update_data \in CompanyUpdateRequests :
           UpdateCompany(u, company_id, update_data)
    \/ \E u \in Users, company_id \in CompanyIds, json_data \in JsonPayloads :
           UpdateCompanyJsonData(u, company_id, json_data)
    \/ \E company_id \in CompanyIds, request \in ConfirmRequests :
           ConfirmCompany(company_id, request)

EditSpec == Init /\ [][EditNext]_vars

\* Uploads of one user, each of a file of one row, and the requests of both
\* users on single companies.
MaxOwnedCompanies == 2     \* companies uploaded in the owner specification

OwnerPayloads == { f \in EditPayloads : Len(f.rows) = 1 }

OwnerNext ==
    \/ \E u \in Uploaders, file \in OwnerPayloads :
           company_id_seq < MaxOwnedCompanies /\ UploadReceive(u, file)
    \/ \E u \in Uploaders : UploadRow(u)
    \/ \E u \in Uploaders : UploadCommit(u)
    \/ \E u \in Users, company_id \in CompanyIds : GetCompany(u, company_id)
    \/ \E u \in Users, company_id \in CompanyIds,
          update_data \in CompanyUpdateRequests :
           UpdateCompany(u, company_id, update_data)
    \/ \E u \in Users, company_id \in CompanyIds,
          metrics_data \in CompanyKeyMetricsUpdates :
           UpdateCompanyKeyMetrics(u, company_id, metrics_data)
    \/ \E u \in Users, company_id \in CompanyIds, json_data \in JsonPayloads :
           UpdateCompanyJsonData(u, company_id, json_data)
    \/ \E u \in Users, company_id \in CompanyIds : DeleteCompany(u, company_id)

OwnerSpec == Init /\ [][OwnerNext]_vars

\* Registrations of two clients, which different workers may serve.
AuthNext ==
    \/ \E p \in Clients, username \in Usernames : RegisterLookup(p, username)
    \/ \E p \in Clients : RegisterCreate(p)

AuthSpec == Init /\ [][AuthNext]_vars

\* The sessions of the handler calls.
SessionNext ==
    \/ \E p \in Clients, h \in Handlers, accepted \in BOOLEAN : Enter(p, h, accepted)
    \/ \E p \in Clients, outcome \in {"ok", "denied", "exception"} :
           TryBody(p, outcome)
    \/ \E p \in Clients, outcome \in {"ok", "flush_raises", "raises"} :
           Write(p, outcome)
    \/ \E p \in Clients, ok \in BOOLEAN : Commit(p, ok)
    \/ \E p \in Clients : Except(p)
    \/ \E p \in Clients : Finally(p)
    \/ \E p \in Clients : Return(p)

SessionSpec == Init /\ [][SessionNext]_vars

\* ------------------------------------------------------------------------
\* Properties of the consolidated-record store
\* ------------------------------------------------------------------------
HasPair(table, inn, year) == \E r \in table : r.inn = inn /\ r.year = year

\* C1: in every reachable state the table holds at most one record for each
\* (inn, year) pair.
C1_OneRecordPerInnYear ==
    \A r1, r2 \in consolidated_data :
        (r1.inn = r2.inn /\ r1.year = r2.year) => r1.id = r2.id

\* C2: of interleaved create requests for one (inn, year) pair at most one
\* commits: an insert commits only while the table holds no record for its
\* pair, the uniqueness being enforced at commit time.
C2_ConcurrentCreateCommitsOnce ==
    [][\A p \in Clients :
          CreateInsert(p) =>
              ~HasPair(consolidated_data, req[p].data[1].inn, req[p].data[1].year)]_vars

\* C5: a create request for a pair that already has a record is answered
\* 409 and leaves the table as it was: no record added, none changed.
C5_DuplicateCreateIsConflict ==
    [][\A p \in Clients, data_in \in NewRecords :
          (CreateLookup(p, data_in)
              /\ HasPair(consolidated_data, data_in.inn, data_in.year))
          => (resp' = "409" /\ consolidated_data' = consolidated_data
                            /\ cd_id_seq' = cd_id_seq /\ req' = req)]_vars

\* A create request was refused while the record it collided with is stored.
C5_Witness ==
    /\ resp = "409"
    /\ consolidated_data # {}

\* C6 as claimed: an update of a stored record sets every field its input
\* carries to the carried value, None included, and leaves every other
\* field as it was.
C6_PartialUpdateFrame ==
    [][\A record_id \in RecordIds, data_update \in UpdateInputs :
          (get_by_id(consolidated_data, record_id) # {}
              /\ UpdateData(record_id, data_update))
          => \E old \in consolidated_data, new \in consolidated_data' :
                /\ old.id = record_id /\ new.id = record_id
                /\ \A f \in DOMAIN old :
                      new[f] = IF f \in data_update.set THEN data_update.val[f]
                               ELSE old[f]]_vars

\* The input carries None for a column that is NOT NULL.
NullsNotNullColumn(data_update) ==
    \E f \in NotNullColumns : f \in data_update.set /\ data_update.val[f] = None

\* C6 as amended: an update of a stored record whose input carries no None
\* for a NOT NULL column sets every field the input carries to the carried
\* value, None included, and leaves every other field as it was; an update
\* that carries None for the NOT NULL name column ends with 500 and leaves
\* the table as it was.
C6_NullablePartialUpdateFrame ==
    [][\A record_id \in RecordIds, data_update \in UpdateInputs :
          (get_by_id(consolidated_data, record_id) # {}
              /\ UpdateData(record_id, data_update))
          => IF NullsNotNullColumn(data_update)
             THEN resp' = "500" /\ consolidated_data' = consolidated_data
             ELSE /\ resp' = "200"
                  /\ \E old \in consolidated_data, new \in consolidated_data' :
                        /\ old.id = record_id /\ new.id = record_id
                        /\ consolidated_data' = (consolidated_data \ {old}) \cup {new}
                        /\ \A f \in DOMAIN old :
                              new[f] = IF f \in data_update.set
                                       THEN data_update.val[f] ELSE old[f]]_vars

\* An update has set net_profit_thous_rub to None, which no create does, and
\* has left the name of that record alone.
C6_Witness ==
    /\ resp = "200"
    /\ \E r \in consolidated_data :
          r.net_profit_thous_rub = None /\ r.name = Some("A")

\* ------------------------------------------------------------------------
\* Properties of the company store
\* ------------------------------------------------------------------------
company_ids(table) == { table[k].id : k \in 1..Len(table) }

linked_company_ids(links) == { links[k].company_id : k \in 1..Len(links) }

\* The last upload of u ended with 500 after it had flushed rows.
FailedAfterFlush(u) ==
    /\ up[u].pc = "idle"
    /\ up[u].status = "500"
    /\ up[u].saved # <<>>

C4_NoCompanyWithoutLink ==
    company_ids(companies) \subseteq linked_company_ids(user_base)

\* A company is stored with its link while another upload has failed
\* part-way and a third is in flight with a flushed row.
C4_Witness ==
    /\ companies # <<>>
    /\ company_ids(companies) \subseteq linked_company_ids(user_base)
    /\ \E u \in Users : FailedAfterFlush(u) \/ up[u].session.companies # <<>>

\* What an upload refused before parsing leaves behind: no rows to process,
\* nothing flushed, tables and id sequence as they were.
RefusedUnparsed(u) ==
    /\ up'[u].pc = "idle"
    /\ up'[u].rows = <<>>
    /\ up'[u].session = EmptySession
    /\ companies' = companies
    /\ user_base' = user_base
    /\ company_id_seq' = company_id_seq

\* The payloads that exceed the ceiling.
OversizePayloads == { f \in Payloads : f.size > MAX_FILE_SIZE_BYTES }

\* C7 as claimed: every upload whose payload exceeds the ceiling is answered
\* with the size-limit error 413, is never parsed and writes no row.
C7_OversizeIsSizeLimitError ==
    [][\A u \in Users, file \in OversizePayloads :
          UploadReceive(u, file)
          => (up'[u].status = "413" /\ RefusedUnparsed(u))]_vars

\* C7 as amended: an upload that passes the file-type check and whose
\* payload exceeds the ceiling is answered 413; one that fails the type
\* check is answered 415 before its size is looked at.  Either way the
\* parser is never invoked and no company or link row is written.
C7_OversizeRefusedBeforeParsing ==
    [][\A u \in Users, file \in OversizePayloads :
          UploadReceive(u, file)
          => /\ up'[u].status = (IF file.csv_type THEN "413" ELSE "415")
             /\ RefusedUnparsed(u)]_vars

\* An oversize upload was refused with 413 while companies are stored.
C7_Witness ==
    /\ \E u \in Users : up[u].pc = "idle" /\ up[u].status = "413"
    /\ companies # <<>>

\* C8: the commit of an upload adds one company to its owner's companies for
\* each row of the payload, whatever tax identifiers are already stored.
C8_CommitAddsOneCompanyPerRow ==
    [][\A u \in Users :
          UploadCommit(u) =>
              Len(companies_of([companies |-> companies',
                                user_base |-> user_base'], u))
                  = Len(companies_of(Db, u)) + up[u].total_rows]_vars

\* A user owns two companies made from the same row of the same payload by
\* two successful uploads.
C8_Witness ==
    \E u \in Users :
        /\ up[u].pc = "idle"
        /\ up[u].status = "200"
        /\ \E i, j \in 1..Len(companies_of(Db, u)) :
              LET c == companies_of(Db, u)[i]
                  d == companies_of(Db, u)[j]
              IN  /\ c.id # d.id
                  /\ c.inn = d.inn
                  /\ c.json_data = d.json_data

\* C9: no two rows of user_base carry the same (user, company) pair.
C9_OneLinkPerUserAndCompany ==
    \A j, k \in 1..Len(user_base) :
        user_base[j] = user_base[k] => j = k

\* A user holds two links, to two companies with the same tax identifier.
C9_Witness ==
    \E j, k \in 1..Len(user_base) :
        /\ j # k
        /\ user_base[j].user_id = user_base[k].user_id
        /\ \E c, d \in 1..Len(companies) :
              /\ companies[c].id = user_base[j].company_id
              /\ companies[d].id = user_base[k].company_id
              /\ companies[c].inn = companies[d].inn

\* C10: once delete_company has succeeded for a company, no link to it
\* remains and no user's list shows it, in that state and in every later one.
C10_DeletedCompanyStaysGone ==
    \A c \in deleted :
        /\ c \notin linked_company_ids(user_base)
        /\ \A u \in Users :
              c \notin company_ids(get_user_companies(Db, u, MaxCompanyId, 0))

\* A company was deleted and its former owner has uploaded again since.
C10_Witness ==
    /\ resp = "200"
    /\ deleted # {}
    /\ companies # <<>>

\* ------------------------------------------------------------------------
\* Further properties of the consolidated-record store
\* ------------------------------------------------------------------------
\* C11: deleting an id that is not stored returns False, answered 404, and
\* leaves the table as it was; deleting a stored id returns True, answered
\* 204, and removes that record and no other.
C11_DeleteReportsWhetherFound ==
    [][\A record_id \in RecordIds :
          DeleteData(record_id) =>
              IF get_by_id(consolidated_data, record_id) = {}
              THEN /\ ~delete(consolidated_data, record_id).result
                   /\ resp' = "404"
                   /\ consolidated_data' = consolidated_data
              ELSE /\ delete(consolidated_data, record_id).result
                   /\ resp' = "204"
                   /\ consolidated_data' =
                          { r \in consolidated_data : r.id # record_id }
                   /\ Cardinality(consolidated_data') =
                          Cardinality(consolidated_data) - 1]_vars

\* A record was deleted while another one stays stored.
C11_Witness ==
    /\ resp = "204"
    /\ consolidated_data # {}
    /\ cd_id_seq = MaxRecordId

\* ------------------------------------------------------------------------
\* Properties of the confirmation state
\* ------------------------------------------------------------------------
\* C12: a confirm step sets the company's confirmation status to the status
\* asked for, whatever the status was, and records who confirmed and when.
C12_ConfirmSetsRequestedStatus ==
    [][\A company_id \in CompanyIds, request \in ConfirmRequests :
          ConfirmCompany(company_id, request) =>
              \A k \in 1..Len(companies') :
                  companies'[k].id = company_id =>
                      /\ companies'[k].confirmation_status = request.kind
                      /\ companies'[k].confirmer_identifier = Some(request.confirmer)
                      /\ companies'[k].confirmed_at # None]_vars

\* The step writes the confirmation metadata of some company.
IsConfirmStep ==
    \E company_id \in CompanyIds, request \in ConfirmRequests :
        ConfirmCompany(company_id, request)

\* C13: a company enters the table not_confirmed, and no step other than a
\* confirm step (no upload, no edit of fields, no replacement of the
\* payload) changes the confirmation status of a stored company.
C13_UnconfirmedUntilConfirm ==
    [][\/ \A k \in 1..Len(companies') :
              IF \E j \in 1..Len(companies) : companies[j].id = companies'[k].id
              THEN \A j \in 1..Len(companies) :
                      companies[j].id = companies'[k].id =>
                          companies'[k].confirmation_status =
                              companies[j].confirmation_status
              ELSE companies'[k].confirmation_status = "not_confirmed"
       \/ IsConfirmStep]_vars

\* A company whose name was edited and whose payload was replaced is still
\* not_confirmed.
C13_Witness ==
    \E k \in 1..Len(companies) :
        /\ companies[k].name = PyStr("NEW")
        /\ companies[k].json_data \in JsonPayloads
        /\ companies[k].confirmed_at = None
        /\ companies[k].confirmation_status = "not_confirmed"

\* ------------------------------------------------------------------------
\* Properties of the upload's response
\* ------------------------------------------------------------------------
\* The request of u ends in this step with a response.
UploadEnds(u) ==
    /\ up[u].pc = "rows"
    /\ up'[u].pc = "idle"
    /\ up'[u].status # "none"

C15_SummaryCountsAllShowsFirst ==
    [][\A u \in Users, file \in SummaryPayloads :
          (UploadFile(u, file) /\ up'[u].status = "200") =>
              LET summary == upload_summary(up'[u].saved)
                  added == SubSeq(companies', Len(companies) + 1, Len(companies'))
                  listed == get_user_companies(
                                [companies |-> companies', user_base |-> user_base'],
                                u, MaxSummaryIds, 0)
              IN  /\ Len(added) = Len(file.rows)
                  /\ summary.companies_processed = Len(added)
                  /\ Len(summary.companies_saved) = Min(SUMMARY_SHOWN, Len(added))
                  /\ \A k \in 1..Len(summary.companies_saved) :
                        summary.companies_saved[k] = added[k].id
                  /\ \A k \in 1..Len(added) :
                        /\ added[k].json_data.number = k
                        /\ added[k].id \in company_ids(listed)]_vars

\* An upload of more than SUMMARY_SHOWN rows has committed: all its
\* companies are stored, the summary shows fewer.
C15_Witness ==
    \E u \in Users :
        /\ up[u].pc = "idle" /\ up[u].status = "200"
        /\ Len(up[u].saved) > SUMMARY_SHOWN
        /\ Len(upload_summary(up[u].saved).companies_saved) < Len(up[u].saved)
        /\ \A k \in 1..Len(up[u].saved) : up[u].saved[k] \in company_ids(companies)

\* The payloads that are not UTF-8 text.
UndecodablePayloads == { f \in Payloads : ~f.utf8 }

\* C16: an upload whose file cannot be decoded as UTF-8 is refused before a
\* row is processed (with 500 when the file passed the type and size
\* checks) and leaves the tables as they were.
C16_UndecodableFileAborts ==
    [][\A u \in Users, file \in UndecodablePayloads :
          UploadReceive(u, file) =>
              /\ RefusedUnparsed(u)
              /\ up'[u].saved = <<>>
              /\ up'[u].status \in {"415", "413", "500"}
              /\ (file.csv_type /\ file.size <= MAX_FILE_SIZE_BYTES)
                     => up'[u].status = "500"]_vars

\* An upload was refused with 500 before any row was flushed, while the
\* companies of an earlier upload are stored.
C16_Witness ==
    /\ companies # <<>>
    /\ \E u \in Users :
          /\ up[u].pc = "idle" /\ up[u].status = "500" /\ up[u].saved = <<>>
          /\ companies_of(Db, u) # <<>>

\* ------------------------------------------------------------------------
\* Properties of the list of a user's companies
\* ------------------------------------------------------------------------
\* The pages of size limit from offset on, one after the other.
RECURSIVE concat_pages(_, _, _, _)
concat_pages(db, user_id, limit, offset) ==
    LET page == get_user_companies(db, user_id, limit, offset)
    IN  IF page = <<>> THEN <<>>
        ELSE page \o concat_pages(db, user_id, limit, offset + limit)

\* C17: in every state and for every page size, the pages of a user's list
\* taken at offsets 0, limit, 2*limit, ... put together hold the companies
\* linked to the user, each once, in the order of their insertion (of their
\* ids), and no other company.
C17_PagesInInsertionOrder ==
    \A u \in Users, limit \in 1..MaxCompanyId :
        LET all == concat_pages(Db, u, limit, 0)
        IN  /\ \A i, j \in 1..Len(all) : i < j => all[i].id < all[j].id
            /\ company_ids(all) =
                   { user_base[k].company_id :
                       k \in { n \in 1..Len(user_base) : user_base[n].user_id = u } }

\* ------------------------------------------------------------------------
\* The reader alone: one cell, or one file, drawn at the start and read once
\* ------------------------------------------------------------------------
CellInit ==
    /\ DataInit
    /\ CompanyInit
    /\ AuthInit
    /\ SessionInit
    /\ resp = "none"
    /\ csv_content \in {Some(cell) : cell \in Cells}
    /\ csv_result = None

CellNext == CleanValue

CellSpec == CellInit /\ [][CellNext]_vars

FileInit ==
    /\ DataInit
    /\ CompanyInit
    /\ AuthInit
    /\ SessionInit
    /\ resp = "none"
    /\ csv_content \in {Some(file) : file \in Files}
    /\ csv_result = None

FileNext == ReadCompanies

FileSpec == FileInit /\ [][FileNext]_vars

IngestInit ==
    /\ DataInit
    /\ CompanyInit
    /\ AuthInit
    /\ SessionInit
    /\ resp = "none"
    /\ csv_content \in {Some(table) : table \in Tables}
    /\ csv_result = None

IngestNext == IngestFile

IngestSpec == IngestInit /\ [][IngestNext]_vars

\* ------------------------------------------------------------------------
\* Properties of the reader
\* ------------------------------------------------------------------------
HeaderNames(file) == {file.fieldnames[p] : p \in 1..Len(file.fieldnames)}

NonBlankLines(file) == {j \in 1..Len(file.rows) : file.rows[j] # <<>>}

\* The line the i-th record is read from: the i-th line that is not blank.
LineOfRecord(file, i) ==
    CHOOSE j \in NonBlankLines(file) :
        Cardinality({q \in NonBlankLines(file) : q <= j}) = i

\* Every line that is not blank has one cell per header field.
ValidFile(file) ==
    \A j \in NonBlankLines(file) : Len(file.rows[j]) = Len(file.fieldnames)

\* The header positions whose name no later position repeats.
OwnPositions(file) ==
    {p \in 1..Len(file.fieldnames) :
        \A q \in (p + 1)..Len(file.fieldnames) :
            file.fieldnames[q] # file.fieldnames[p]}

\* The records are one per line that is not blank, in the order of the
\* lines, each holding the cleaned cells of its line, with None for the
\* header fields the line has no cell for.
RecordsFollowLines(file, read) ==
    /\ ~read.raised
    /\ Len(read.records) = Cardinality(NonBlankLines(file))
    /\ \A i \in 1..Len(read.records) :
          LET row == file.rows[LineOfRecord(file, i)]
          IN \A p \in OwnPositions(file) :
                read.records[i][file.fieldnames[p]] =
                    IF p <= Len(row) THEN clean_value_of(RawStr(row[p]))
                    ELSE CellNone

\* C18, as claimed: for every valid file read_companies returns one record
\* per data line, in the order of the lines, and the keys of every record
\* are exactly the header's field names.
C18_RecordKeysAreHeaderNames ==
    (csv_result # None /\ ValidFile(csv_content[1])) =>
        /\ RecordsFollowLines(csv_content[1], csv_result[1])
        /\ \A i \in 1..Len(csv_result[1].records) :
              DOMAIN csv_result[1].records[i] = HeaderNames(csv_content[1])

\* C18, amended: for every valid file read_companies returns one record per
\* line that is not blank, in the order of the lines, and the keys of every
\* record are the header's field names and the added key "number", which
\* holds the position of the record.
C18_RecordKeysAreHeaderNamesAndNumber ==
    (csv_result # None /\ ValidFile(csv_content[1])) =>
        /\ RecordsFollowLines(csv_content[1], csv_result[1])
        /\ \A i \in 1..Len(csv_result[1].records) :
              /\ DOMAIN csv_result[1].records[i] =
                     HeaderNames(csv_content[1]) \cup {number_key}
              /\ csv_result[1].records[i][number_key] = CellInt(i)

\* A valid file of two fields, with a blank line before its one data line,
\* has been read.
C18_Witness ==
    /\ csv_result # None
    /\ ValidFile(csv_content[1])
    /\ csv_content[1].fieldnames = << <<"inn">>, <<"name">> >>
    /\ Len(csv_content[1].rows) = 2
    /\ csv_content[1].rows[1] = <<>>
    /\ csv_content[1].rows[2] = << <<"1">>, <<"a", ",">> >>
    /\ Len(csv_result[1].records) = 1

\* C19: read_companies does not fail on a line whose number of cells differs
\* from the header's: a short line gives a record whose trailing fields are
\* None, a long line a record with the cells aligned to the header.
C19_RaggedLinesGiveRecords ==
    (/\ csv_result # None
     /\ \E j \in NonBlankLines(csv_content[1]) :
           Len(csv_content[1].rows[j]) # Len(csv_content[1].fieldnames)) =>
        RecordsFollowLines(csv_content[1], csv_result[1])

\* C20: _clean_value gives None for an empty or blank cell, an integer for a
\* cell that, its commas rewritten to points, parses as an integer, a float
\* for one that parses as a decimal, and for any other cell the text of the
\* cell as it was.
C20_OtherCellsKeepTheirText ==
    csv_result # None =>
        LET cell == csv_content[1]
            cleaned == strip(str_replace(cell, ",", "."))
        IN IF strip(cell) = <<>> THEN csv_result[1] = CellNone
           ELSE IF is_int_literal(cleaned) THEN csv_result[1].t = "int"
           ELSE IF is_float_literal(cleaned) THEN csv_result[1].t = "float"
           ELSE csv_result[1] = CellStr(cell)

\* ------------------------------------------------------------------------
\* Properties of the ingestion of a file
\* ------------------------------------------------------------------------
\* The lines of the table that are no blank line, in their order.
TableDataRows(table) ==
    SelectSeq(table.rows, LAMBDA row : join(row, table.delimiter) # <<>>)

\* The cell of a row under a header, if the table has both.
HasCellUnder(table, row, header) ==
    \E p \in 1..Len(table.fieldnames) :
        /\ table.fieldnames[p] = header
        /\ p <= Len(row)

CellUnder(table, row, header) ==
    row[CHOOSE p \in 1..Len(table.fieldnames) : table.fieldnames[p] = header]

\* C21: the support indicator of an ingested Company is true exactly when
\* the cell of its row under the support-measures column is the sentinel,
\* and false for any other text, an empty cell or a missing one.
C21_SupportIndicatorIffSentinelCell ==
    (csv_result # None /\ csv_result[1].status = "200") =>
        LET table == csv_content[1]
            rows == TableDataRows(table)
        IN /\ Len(csv_result[1].companies) = Len(rows)
           /\ \A i \in 1..Len(rows) :
                 csv_result[1].companies[i].support_measures =
                     (/\ HasCellUnder(table, rows[i], KeyHeaders.support_measures)
                      /\ CellUnder(table, rows[i], KeyHeaders.support_measures)
                             = GRANTED)

\* C22: a file written with semicolons is ingested with the same records
\* and the same Company rows as the file that holds the same table written
\* with commas.
C22_SemicolonFileReadsAsCommaFile ==
    csv_result # None =>
        csv_result[1] =
            ingest(text_of([csv_content[1] EXCEPT !.delimiter = ","]))

\* The header and the data lines of the table's file as the upload's
\* reader splits them.
ParsedHeader(table) == csv_reader(text_of(table)[1], DEFAULT_DELIMITER)

ParsedRows(table) ==
    LET lines == Tail(text_of(table))
        cells == [i \in 1..Len(lines) |-> csv_reader(lines[i], DEFAULT_DELIMITER)]
    IN SelectSeq(cells, LAMBDA row : row # <<>>)

\* C23: the payload stored with every ingested Company maps every header
\* field of the file to the cleaned cell of the Company's row under it, the
\* fields that are key fields included.
C23_PayloadHoldsEveryHeaderField ==
    (csv_result # None /\ csv_result[1].status = "200") =>
        LET header == ParsedHeader(csv_content[1])
            rows == ParsedRows(csv_content[1])
        IN /\ Len(csv_result[1].companies) = Len(rows)
           /\ \A i \in 1..Len(rows) : \A p \in 1..Len(header) :
                 /\ header[p] \in DOMAIN csv_result[1].companies[i].json_data
                 /\ (\A q \in (p + 1)..Len(header) : header[q] # header[p]) =>
                        csv_result[1].companies[i].json_data[header[p]] =
                            IF p <= Len(rows[i])
                            THEN clean_value_of(RawStr(rows[i][p]))
                            ELSE CellNone

\* ------------------------------------------------------------------------
\* Properties of the upload's transaction
\* ------------------------------------------------------------------------
link_set(links) == { links[k] : k \in 1..Len(links) }

\* C24: rows of an upload become visible only in the step that commits
\* after the last row, all of the batch at once; a step in which a row
\* fails ends the upload with 500, adds nothing to the store and leaves no
\* flushed company or link of that upload visible.
C24_BatchVisibleOnlyThroughCommit ==
    [][\/ /\ companies' = companies
          /\ user_base' = user_base
       \/ LET new_companies == company_ids(companies') \ company_ids(companies)
              new_links == link_set(user_base') \ link_set(user_base)
          IN /\ (new_companies # {} \/ new_links # {}) =>
                   \E u \in Users :
                       /\ up[u].pc = "rows"
                       /\ up[u].rows = <<>>
                       /\ up'[u].status = "200"
                       /\ new_companies = company_ids(up[u].session.companies)
                       /\ new_links = link_set(up[u].session.user_base)
             /\ \A u \in Users :
                   (up[u].pc = "rows" /\ up'[u].status = "500") =>
                       new_companies = {} /\ new_links = {}]_vars

\* One upload has committed its row while another, which had flushed a row,
\* failed and left nothing in the store.
C24_Witness ==
    \E u \in Users, v \in Users :
        /\ u # v
        /\ up[u].pc = "idle" /\ up[u].status = "200" /\ Len(up[u].saved) = 1
        /\ up[u].saved[1] \in company_ids(companies)
        /\ FailedAfterFlush(v)
        /\ up[v].saved[1] \notin company_ids(companies)
        /\ up[v].saved[1] \notin linked_company_ids(user_base)

\* ------------------------------------------------------------------------
\* Properties of the requests on one company
\* ------------------------------------------------------------------------
HasLink(u, company_id) ==
    \E k \in 1..Len(user_base) :
        /\ user_base[k].user_id = u
        /\ user_base[k].company_id = company_id

\* Some request of user u on the company: a get, an update of fields, of
\* key metrics or of the payload, or a delete.
IsRequestOn(u, company_id) ==
    \/ GetCompany(u, company_id)
    \/ DeleteCompany(u, company_id)
    \/ \E json_data \in JsonPayloads :
           UpdateCompanyJsonData(u, company_id, json_data)
    \/ \E metrics_data \in CompanyKeyMetricsUpdates :
           UpdateCompanyKeyMetrics(u, company_id, metrics_data)
    \/ \E update_data \in CompanyUpdateRequests :
           UpdateCompany(u, company_id, update_data)

\* C25: a request of a user on a company the user has no ownership link to
\* ends with 404 and leaves the companies, their payloads and the links as
\* they were, and the list of a user holds only companies the user has a
\* link to.
C25_RequestsReachOwnCompaniesOnly ==
    /\ [](\A u \in Users :
             \A id \in company_ids(get_user_companies(Db, u, MaxCompanyId, 0)) :
                 HasLink(u, id))
    /\ [][\/ /\ resp' = "404"
             /\ companies' = companies
             /\ user_base' = user_base
          \/ up' # up
          \/ \A u \in Users, company_id \in CompanyIds :
                (~HasLink(u, company_id) /\ IsRequestOn(u, company_id)) =>
                    /\ resp' = "404"
                    /\ companies' = companies
                    /\ user_base' = user_base]_vars

\* The user who owns nothing has asked for a stored company of the other
\* user and was answered 404.
C25_Witness ==
    /\ resp = "404"
    /\ companies # <<>>
    /\ \E k \in 1..Len(companies) :
          /\ HasLink("u1", companies[k].id)
          /\ ~HasLink("u2", companies[k].id)
          /\ companies[k].updated_at = "after_upload"

\* ------------------------------------------------------------------------
\* Properties of the registration
\* ------------------------------------------------------------------------
\* C26: no two rows of users share a username, whatever registrations ran
\* and however two of them interleaved.
C26_UsernamesAreUnique ==
    \A i \in 1..Len(users), j \in 1..Len(users) :
        users[i].username = users[j].username => i = j

\* ------------------------------------------------------------------------
\* Properties of the edits of a company
\* ------------------------------------------------------------------------
\* The stored company with the id keeps the value of the field in the step.
KeepsField(company_id, f) ==
    \A k \in 1..Len(companies), j \in 1..Len(companies') :
        (companies[k].id = company_id /\ companies'[j].id = company_id) =>
            companies'[j][f] = companies[k][f]

\* C27: update_company and update_company_key_metrics never set a field to
\* null: a request that carries a field with the value null leaves the
\* stored value of the field as it was, as a request without the field does.
C27_NullFieldKeepsStoredValue ==
    /\ [](\A k \in 1..Len(companies) :
             companies[k].name # PyNone /\ companies[k].main_industry # PyNone)
    /\ [][\A u \in Users, company_id \in CompanyIds :
             /\ (\E update_data \in CompanyUpdateRequests :
                    /\ "name" \in update_data.set
                    /\ update_data.val.name = None
                    /\ UpdateCompany(u, company_id, update_data)) =>
                        KeepsField(company_id, "name")
             /\ (\E metrics_data \in CompanyKeyMetricsUpdates :
                    /\ "main_industry" \in metrics_data.set
                    /\ metrics_data.val.main_industry = None
                    /\ UpdateCompanyKeyMetrics(u, company_id, metrics_data)) =>
                        KeepsField(company_id, "main_industry")]_vars

\* A company whose name and main industry were both edited is stored, and
\* the last request on a company was carried out.
C27_Witness ==
    /\ resp = "200"
    /\ \E k \in 1..Len(companies) :
          /\ companies[k].name = PyStr("NEW")
          /\ companies[k].main_industry = PyStr("NEW")
          /\ companies[k].updated_at = "after_upload"

\* The step keeps the ownership links and the stored companies, and of every
\* stored company every column outside the given ones.
ChangesOnly(columns) ==
    /\ user_base' = user_base
    /\ Len(companies') = Len(companies)
    /\ \A k \in 1..Len(companies) :
          \E j \in 1..Len(companies') :
              /\ companies'[j].id = companies[k].id
              /\ \A f \in DOMAIN companies[k] \ columns :
                    companies'[j][f] = companies[k][f]

\* The columns update_company and update_company_key_metrics may write in
\* the model, and the ones update_company_json_data may write.
FieldEditColumns == {"name", "main_industry", "updated_at"}
JsonEditColumns == {"json_data", "updated_at"}

\* C28: update_company and update_company_key_metrics leave the id, the tax
\* identifier, the stored payload, the creation time and the ownership links
\* of every company unchanged; update_company_json_data changes only the
\* stored payload and the update timestamp.
C28_EditsKeepIdentityAndOwnership ==
    [][\/ companies' = companies /\ user_base' = user_base
       \/ up' # up
       \/ \A u \in Users, company_id \in CompanyIds :
             /\ (\/ \E update_data \in CompanyUpdateRequests :
                       UpdateCompany(u, company_id, update_data)
                 \/ \E metrics_data \in CompanyKeyMetricsUpdates :
                       UpdateCompanyKeyMetrics(u, company_id, metrics_data)) =>
                    ChangesOnly(FieldEditColumns)
             /\ (\E json_data \in JsonPayloads :
                    UpdateCompanyJsonData(u, company_id, json_data)) =>
                    ChangesOnly(JsonEditColumns)]_vars

\* A company edited field by field and through its payload is stored with
\* the tax identifier and the creation time of its upload, and still linked
\* to its uploader.
C28_Witness ==
    \E k \in 1..Len(companies) :
        /\ companies[k].name = PyStr("NEW")
        /\ companies[k].json_data \in JsonPayloads
        /\ companies[k].updated_at = "after_upload"
        /\ companies[k].created_at = "at_upload"
        /\ companies[k].inn # 0
        /\ \E u \in Uploaders : HasLink(u, companies[k].id)

\* The links of a table, as a set.
links_of(links) == { links[k] : k \in 1..Len(links) }

\* C29: in every reachable state each ownership link refers to a stored
\* company and to a user; a link appears only in the step that stores its
\* company, and a company leaves the table only together with its links.
C29_NoDanglingLink ==
    /\ [](\A k \in 1..Len(user_base) :
             /\ user_base[k].company_id \in company_ids(companies)
             /\ user_base[k].user_id \in Users)
    /\ [][/\ \A link \in links_of(user_base') \ links_of(user_base) :
                /\ link.company_id \notin company_ids(companies)
                /\ link.company_id \in company_ids(companies')
          /\ \A id \in company_ids(companies) \ company_ids(companies') :
                /\ id \in linked_company_ids(user_base)
                /\ id \notin linked_company_ids(user_base')]_vars

\* After uploads and a deletion a company is stored with its link, and the
\* deleted company has neither row nor link.
C29_Witness ==
    /\ deleted # {}
    /\ user_base # <<>>
    /\ linked_company_ids(user_base) = company_ids(companies)
    /\ \A id \in deleted : id \notin linked_company_ids(user_base)

\* ------------------------------------------------------------------------
\* Properties of the sessions
\* ------------------------------------------------------------------------
\* C30: a handler that has returned has closed the session it opened,
\* whether it answers 200, raises its own HTTPException or fails with
\* another exception; and a session is never closed while it holds failed
\* or uncommitted writes: they are rolled back first.
C30_SessionsAreClosedAndRolledBack ==
    \A p \in Clients :
        /\ calls[p].pc = "returned" =>
              /\ calls[p].session # "open"
              /\ calls[p].session = "none" =>
                    (calls[p].handler \in EndsBeforeSession /\ calls[p].tx = "clean")
        /\ calls[p].session = "closed" => calls[p].tx \notin {"failed", "pending"}

\* A writer has returned 500 after a failed write: its session is closed and
\* the write rolled back, while another call still holds an open session.
C30_Witness ==
    \E p, q \in Clients :
        /\ calls[p].pc = "returned"
        /\ calls[p].handler \in Writers
        /\ calls[p].status = "500"
        /\ calls[p].session = "closed"
        /\ calls[p].tx = "rolled_back"
        /\ calls[q].session = "open"

====
